---- MODULE Spec2Model ----
(***************************************************************************)
(* Page / comment management core of wikifeat                              *)
(* (wikis/wiki_service/pages_manager.go).                                  *)
(*                                                                         *)
(* Every PageManager method runs on the goroutine of the request that      *)
(* called it; the requests share nothing but the document store.  A        *)
(* request is a process p; each store operation it issues is one atomic    *)
(* step, so that the steps of concurrent requests interleave exactly where *)
(* the store can observe them.  The Markdown render goroutine started by   *)
(* Save / SaveComment is a second thread of control per request (task[p]). *)
(***************************************************************************)
EXTENDS Integers, Sequences, FiniteSets, TLC

VARIABLES
    pages,      \* per-wiki page store: id -> page document
    wikiRec,    \* main database: wiki id -> WikiRecord
    comments,   \* per-wiki comment store: id -> comment document
    pc,         \* p -> position of request p inside its PageManager method
    call,       \* p -> the method request p runs and its arguments
    loc,        \* p -> the method's local variables
    ret,        \* p -> what the method returned (rev, err)
    log,        \* p -> the store operations the current call has issued
    task,       \* p -> the processMarkdown goroutine of the current call
    hand        \* p -> sends / receives on the call's `out` channel

vars == <<pages, wikiRec, comments, pc, call, loc, ret, log, task, hand>>

storeVars == <<pages, wikiRec, comments>>

(***************************************************************************)
(* Bounds of the model.                                                    *)
(***************************************************************************)
\* no call on a document starts once the document has reached this revision
MaxRev == 3
\* longest ancestor chain of the page hierarchies GetBreadcrumbs is run on
MaxDepth == 2
\* largest page number and page size GetHistory is called with
MaxPaging == 2

Procs == {1, 2}

(***************************************************************************)
(* Identifiers.                                                            *)
(***************************************************************************)
Wiki == "w1"

\* the documents of the page store: two live pages and the history record
\* kept for a past revision of p1; requests name p1, h1 or p0, an id that
\* has no document
LivePageIds == {"p1", "p2"}
HistoryIds  == {"h1"}
StoredIds   == LivePageIds \cup HistoryIds
PageIds     == {"p1", "h1", "p0"}
CommentIds  == {"c1"}
RawTexts    == {"md1", "md2"}

\* error classes (spec section 7); "" is Go's nil error
NoErr      == ""
NotFound   == "NotFound"
BadRequest == "BadRequest"
Forbidden  == "Forbidden"
Conflict   == "Conflict"

(***************************************************************************)
(* Role names (common/entities): AdminRole(res) is res ":admin".           *)
(***************************************************************************)
MainDbName == "main"

AdminRole(res) ==
    CASE res = "w1"   -> "w1:admin"
      [] res = "w2"   -> "w2:admin"
      [] res = "main" -> "main:admin"

MasterRole == "master"

HasRole(roles, role) == role \in roles

\* the principals (CurrentUserInfo) requests are made by
User(name, roles) == [name |-> name, roles |-> roles]

Alice  == User("alice",  {"w1:write"})
Bob    == User("bob",    {"w1:write"})
Carol  == User("carol",  {"w1:admin"})
Dave   == User("dave",   {"main:admin"})
Erin   == User("erin",   {"master"})
Frank  == User("frank",  {"w2:admin", "w1:read"})

Principals == {Alice, Bob, Carol, Dave, Erin, Frank}

(***************************************************************************)
(* The revisioned document store (wikit / couchdb), spec section 6:        *)
(* read(id), write(doc, id, rev), delete(id, rev).  A revision token is    *)
(* the document's generation number; 0 is the empty token "".  A deleted   *)
(* document keeps its generation, so no token is ever issued twice.        *)
(***************************************************************************)
EmptyPage == [live |-> FALSE, rev |-> 0, owningPage |-> "", title |-> "",
              lineage |-> <<>>, raw |-> "", formatted |-> "",
              wiki |-> "", slug |-> ""]

EmptyWikiRecord == [live |-> FALSE, rev |-> 0, homePageId |-> "", slug |-> ""]

EmptyComment == [live |-> FALSE, rev |-> 0, author |-> "", raw |-> "",
                 formatted |-> ""]

Exists(db, id) == id \in DOMAIN db /\ db[id].live

CurRev(db, id) == IF id \in DOMAIN db THEN db[id].rev ELSE 0

\* read: the document and its token, or NotFound and the zero document
StoreRead(db, id, zero) ==
    IF Exists(db, id)
    THEN [err |-> NoErr, rev |-> db[id].rev, doc |-> db[id]]
    ELSE [err |-> NotFound, rev |-> 0, doc |-> zero]

\* write: create with the empty token, update with the current one
StoreWriteErr(db, id, rev) ==
    IF Exists(db, id)
    THEN (IF rev = db[id].rev THEN NoErr ELSE Conflict)
    ELSE (IF rev = 0 THEN NoErr ELSE Conflict)

StoreWrite(db, id, rev, doc) ==
    IF StoreWriteErr(db, id, rev) = NoErr
    THEN [err |-> NoErr, rev |-> CurRev(db, id) + 1,
          db |-> [db EXCEPT ![id] = [doc EXCEPT !.live = TRUE,
                                                !.rev = CurRev(db, id) + 1]]]
    ELSE [err |-> StoreWriteErr(db, id, rev), rev |-> 0, db |-> db]

\* delete: only the current revision of an existing document
StoreDeleteErr(db, id, rev) ==
    IF ~Exists(db, id) THEN NotFound
    ELSE IF rev = db[id].rev THEN NoErr ELSE Conflict

StoreDelete(db, id, rev) ==
    IF StoreDeleteErr(db, id, rev) = NoErr
    THEN [err |-> NoErr, rev |-> db[id].rev + 1,
          db |-> [db EXCEPT ![id].live = FALSE, ![id].rev = db[id].rev + 1]]
    ELSE [err |-> StoreDeleteErr(db, id, rev), rev |-> 0, db |-> db]

\* the tokens a caller can hold for a document are "" and those issued so
\* far; every token older than the current one is stale alike, so the empty,
\* the current and the one before it stand for all
KnownRevs(db, id) == {r \in {0, CurRev(db, id) - 1, CurRev(db, id)} : r >= 0}

\* calls on a document start only while it is below MaxRev
Below(db, id) == CurRev(db, id) < MaxRev

(***************************************************************************)
(* Requests.                                                               *)
(***************************************************************************)
NoCall == [op |-> "none", user |-> User("", {}), id |-> "", rev |-> 0, raw |-> "",
           wikiSlug |-> "", pageNum |-> 0, numPerPage |-> 0]

LocInit == [thePage |-> EmptyPage, wr |-> EmptyWikiRecord, wRev |-> 0,
            comment |-> EmptyComment, allowed |-> FALSE, commentRev |-> 0,
            formatted |-> "", wikiId |-> ""]

NoRet == [rev |-> 0, err |-> NoErr, crumbs |-> <<>>, wikiId |-> ""]

NoTask == [at |-> "none", doc |-> FALSE, val |-> "", panicked |-> FALSE]

NoHand == [spawned |-> 0, sent |-> 0, received |-> 0]

\* an entry of log[p]: the store operation, its target, its outcome (err,
\* rev), the Formatted text a write carried, and what the store held: the
\* HomePageId a WikiRead returned, the Author of the comment that was read,
\* overwritten or removed ("" when there was none)
Ev(op, id, err, rev, fmt, info) ==
    [op |-> op, id |-> id, err |-> err, rev |-> rev, fmt |-> fmt, info |-> info]

Ops(p) == [i \in 1 .. Len(log[p]) |-> log[p][i].op]

Ready(p) == pc[p] \in {"idle", "done"}

Call(op, user, id, rev, raw) ==
    [NoCall EXCEPT !.op = op, !.user = user, !.id = id, !.rev = rev, !.raw = raw]

\* a call starts: the locals are fresh, the log of the previous call is dropped
Begin(p, c, l, events) ==
    /\ call' = [call EXCEPT ![p] = c]
    /\ loc'  = [loc EXCEPT ![p] = l]
    /\ log'  = [log EXCEPT ![p] = events]

\* the call has no render goroutine
NoRender(p) ==
    /\ task' = [task EXCEPT ![p] = NoTask]
    /\ hand' = [hand EXCEPT ![p] = NoHand]

\* `out := make(chan string); go processMarkdown(raw, out)`: the goroutine
\* is at its first statement, nothing was sent on the new channel
Spawn(p) ==
    /\ task' = [task EXCEPT ![p] = [NoTask EXCEPT !.at = "parse"]]
    /\ hand' = [hand EXCEPT ![p] = [NoHand EXCEPT !.spawned = 1]]

\* the call goes on at position pos
Goto(p, pos) ==
    /\ pc'  = [pc EXCEPT ![p] = pos]
    /\ ret' = [ret EXCEPT ![p] = NoRet]

\* the call returns (rev, err)
Return(p, rev, err) ==
    /\ pc'  = [pc EXCEPT ![p] = "done"]
    /\ ret' = [ret EXCEPT ![p] = [NoRet EXCEPT !.rev = rev, !.err = err]]

Logged(p, ev) == log' = [log EXCEPT ![p] = Append(@, ev)]

(***************************************************************************)
(* PageManager.Delete (lines 169-195).                                     *)
(***************************************************************************)
\* line 177, mutated: the check is left out
IsHistoricalOmitted(thePage, pageId) == FALSE

\* line 177: the record read is not the live record of pageId
IsHistorical(thePage, pageId) == thePage.owningPage # pageId

\* line 186: the page is the wiki's home page
IsHomePage(wr, pageId) == wr.homePageId = pageId

\* line 190, mutated: the error of the update is dropped
UpdateFailedIgnored(err) == FALSE

\* line 190: a failed WikiRecord update ends the call
UpdateFailed(err) == err # NoErr

\* lines 171-180: load the page, refuse a missing or a historical record
DeleteReadPage(p) ==
    /\ Ready(p)
    /\ Below(wikiRec, Wiki)
    /\ \E pageId \in PageIds : \E pageRev \in KnownRevs(pages, pageId) :
         LET r == StoreRead(pages, pageId, EmptyPage) IN
         /\ Below(pages, pageId)
         /\ Begin(p, Call("Delete", Alice, pageId, pageRev, ""),
                  [LocInit EXCEPT !.thePage = r.doc],
                  <<Ev("ReadPage", pageId, r.err, r.rev, "", "")>>)
         /\ IF r.err # NoErr THEN Return(p, 0, r.err)
            ELSE IF IsHistorical(r.doc, pageId) THEN Return(p, 0, BadRequest)
            ELSE Goto(p, "wmRead")
    /\ NoRender(p)
    /\ UNCHANGED storeVars

\* lines 182-186: read the WikiRecord, see whether the page is the home page
DeleteWikiRead(p) ==
    /\ pc[p] = "wmRead"
    /\ LET r == StoreRead(wikiRec, Wiki, EmptyWikiRecord) IN
       /\ Logged(p, Ev("WikiRead", Wiki, r.err, r.rev, "", r.doc.homePageId))
       /\ loc' = [loc EXCEPT ![p].wr = r.doc, ![p].wRev = r.rev]
       /\ IF r.err # NoErr THEN Return(p, 0, r.err)
          ELSE IF IsHomePage(r.doc, call[p].id) THEN Goto(p, "wmUpdate")
          ELSE Goto(p, "deletePage")
    /\ UNCHANGED <<storeVars, call, task, hand>>

\* lines 187-192: clear the WikiRecord's home page id
DeleteWikiUpdate(p) ==
    /\ pc[p] = "wmUpdate"
    /\ LET wr == [loc[p].wr EXCEPT !.homePageId = ""]
           r  == StoreWrite(wikiRec, Wiki, loc[p].wRev, wr) IN
       /\ wikiRec' = r.db
       /\ Logged(p, Ev("WikiUpdate", Wiki, r.err, r.rev, "", ""))
       /\ loc' = [loc EXCEPT ![p].wr = wr]
       /\ IF UpdateFailed(r.err) THEN Return(p, 0, r.err)
          ELSE Goto(p, "deletePage")
    /\ UNCHANGED <<pages, comments, call, task, hand>>

\* line 194, mutated: a failed delete puts the home page id back
DeletePageRollback(p) ==
    /\ pc[p] = "deletePage"
    /\ LET r == StoreDelete(pages, call[p].id, call[p].rev) IN
       /\ pages' = r.db
       /\ Logged(p, Ev("DeletePage", call[p].id, r.err, r.rev, "", ""))
       /\ Return(p, r.rev, r.err)
       /\ wikiRec' = IF r.err # NoErr /\ "WikiUpdate" \in {log[p][i].op : i \in 1 .. Len(log[p])}
                     THEN StoreWrite(wikiRec, Wiki, wikiRec[Wiki].rev,
                                     [wikiRec[Wiki] EXCEPT !.homePageId = call[p].id]).db
                     ELSE wikiRec
    /\ UNCHANGED <<comments, call, loc, task, hand>>

\* line 194: delete the page with the caller's revision token
DeletePage(p) ==
    /\ pc[p] = "deletePage"
    /\ LET r == StoreDelete(pages, call[p].id, call[p].rev) IN
       /\ pages' = r.db
       /\ Logged(p, Ev("DeletePage", call[p].id, r.err, r.rev, "", ""))
       /\ Return(p, r.rev, r.err)
    /\ UNCHANGED <<wikiRec, comments, call, loc, task, hand>>

(***************************************************************************)
(* Another request of the wiki service rewrites the WikiRecord             *)
(* (WikiManager.Update): it designates a home page.                        *)
(***************************************************************************)
WikiSetHomePage ==
    /\ Below(wikiRec, Wiki)
    /\ \E h \in LivePageIds :
         /\ wikiRec[Wiki].homePageId # h
         /\ wikiRec' = StoreWrite(wikiRec, Wiki, wikiRec[Wiki].rev,
                                  [wikiRec[Wiki] EXCEPT !.homePageId = h]).db
    /\ UNCHANGED <<pages, comments, pc, call, loc, ret, log, task, hand>>

(***************************************************************************)
(* PageManager.GetBreadcrumbs (lines 75-113).                              *)
(***************************************************************************)
\* theWiki.ReadMultiplePages(ids, &response): one row per requested id, in
\* the order asked; the row of a missing page carries the zero document
ReadMultiplePages(db, ids) ==
    [i \in 1 .. Len(ids) |-> [Id |-> ids[i], Doc |-> StoreRead(db, ids[i], EmptyPage).doc]]

\* line 83, mutated: the whole lineage is fetched
AncestorSliceWhole(lineage) == lineage

\* line 83: thePage.Lineage[0 : szLineage-1]
AncestorSlice(lineage) == SubSeq(lineage, 1, Len(lineage) - 1)

\* lines 96-99: the second-to-last entry of the row's own lineage
ParentOf(doc) ==
    IF Len(doc.lineage) >= 2 THEN doc.lineage[Len(doc.lineage) - 1] ELSE ""

\* lines 100-105
Crumb(row) ==
    [Name |-> row.Doc.title, PageId |-> row.Id, WikiId |-> Wiki, Parent |-> ParentOf(row.Doc)]

\* lines 89-107: the rows fetched, then the current page, one crumb each
Crumbs(rows, pageId, thePage) ==
    LET all == Append(rows, [Id |-> pageId, Doc |-> thePage])
    IN  [i \in 1 .. Len(all) |-> Crumb(all[i])]

ReturnCrumbs(p, crumbs) ==
    /\ pc'  = [pc EXCEPT ![p] = "done"]
    /\ ret' = [ret EXCEPT ![p] = [NoRet EXCEPT !.crumbs = crumbs]]

\* lines 77-82 (and 88-108 when there is nothing to fetch): read the page
GetBreadcrumbsRead(p) ==
    /\ Ready(p)
    /\ \E pageId \in DOMAIN pages \cup {"p0"} :
         LET r == StoreRead(pages, pageId, EmptyPage) IN
         /\ Begin(p, Call("GetBreadcrumbs", Alice, pageId, 0, ""),
                  [LocInit EXCEPT !.thePage = r.doc],
                  <<Ev("ReadPage", pageId, r.err, r.rev, "", "")>>)
         /\ IF r.err # NoErr THEN Return(p, 0, r.err)
            ELSE IF Len(r.doc.lineage) > 1 THEN Goto(p, "ancestors")
            ELSE ReturnCrumbs(p, Crumbs(<<>>, pageId, r.doc))
    /\ NoRender(p)
    /\ UNCHANGED storeVars

\* lines 83-108: fetch the ancestors, build the crumbs
GetBreadcrumbsAncestors(p) ==
    /\ pc[p] = "ancestors"
    /\ LET ids  == AncestorSlice(loc[p].thePage.lineage)
           rows == ReadMultiplePages(pages, ids) IN
       /\ Logged(p, Ev("ReadMultiplePages", "", NoErr, 0, "", ""))
       /\ ReturnCrumbs(p, Crumbs(rows, call[p].id, loc[p].thePage))
    /\ UNCHANGED <<storeVars, call, loc, task, hand>>

(***************************************************************************)
(* PageManager.GetHistory (lines 198-203).                                 *)
(***************************************************************************)
\* the paging arguments the spec calls valid
ValidPaging(pageNum, numPerPage) == pageNum >= 0 /\ numPerPage > 0

\* theWiki.GetHistory(pageId, pageNum, numPerPage): the history view of the
\* page store.  What the store makes of a negative page number or of a
\* page size below one is not known: it answers or it fails.
HistoryQuery(pageId, pageNum, numPerPage) ==
    IF ValidPaging(pageNum, numPerPage) THEN {NoErr} ELSE {NoErr, BadRequest}

\* the arguments GetHistory is called with
PagingArgs == -1 .. MaxPaging

\* lines 198-203: select the wiki, hand the arguments to the store's query
\* and return what it returns
GetHistory(p) ==
    /\ Ready(p)
    /\ \E pageId \in PageIds : \E pageNum \in PagingArgs : \E numPerPage \in PagingArgs :
       \E err \in HistoryQuery(pageId, pageNum, numPerPage) :
         /\ Begin(p, [Call("GetHistory", Alice, pageId, 0, "")
                        EXCEPT !.pageNum = pageNum, !.numPerPage = numPerPage],
                  LocInit, <<Ev("GetHistory", pageId, err, 0, "", "")>>)
         /\ Return(p, 0, err)
    /\ NoRender(p)
    /\ UNCHANGED storeVars

(***************************************************************************)
(* PageManager.ReadBySlug (lines 144-166).                                 *)
(***************************************************************************)
\* mainDb.GetView("wiki_query", "getWikiBySlug", key = wikiSlug): the ids of
\* the wiki records of the global namespace that carry the slug
GetWikiBySlug(wikiSlug) ==
    {w \in DOMAIN wikiRec : wikiRec[w].live /\ wikiRec[w].slug = wikiSlug}

\* theWiki.ReadPageBySlug(pageSlug, page) on the page store of wikiId: a
\* live page of that wiki with the slug and its token, or NotFound
ReadPageBySlug(wikiId, pageSlug) ==
    LET found == {id \in DOMAIN pages :
                    /\ pages[id].live /\ pages[id].owningPage = id
                    /\ pages[id].wiki = wikiId /\ pages[id].slug = pageSlug}
    IN  IF found = {} THEN {[err |-> NotFound, rev |-> 0, doc |-> EmptyPage]}
        ELSE {StoreRead(pages, id, EmptyPage) : id \in found}

\* line 158, mutated: the rows are not counted
NoRowsIgnored(rows) == FALSE

\* lines 158 and 163-165: len(response.Rows) > 0 is false
NoRows(rows) == rows = {}

\* line 159: response.Rows[0].Id; "" where there is no row
FirstRowId(rows) == IF rows = {} THEN {""} ELSE rows

\* lines 147-158 and 163-165: query the global slug index
ReadBySlugView(p, wikiSlugs, pageSlugs) ==
    /\ Ready(p)
    /\ \E wikiSlug \in wikiSlugs : \E pageSlug \in pageSlugs :
         LET rows == GetWikiBySlug(wikiSlug)
             c    == [Call("ReadBySlug", Alice, pageSlug, 0, "") EXCEPT !.wikiSlug = wikiSlug]
         IN  IF NoRows(rows)
             THEN /\ Begin(p, c, LocInit, <<Ev("GetView", wikiSlug, NoErr, 0, "", "")>>)
                  /\ Return(p, 0, NotFound)
             ELSE \E wikiId \in FirstRowId(rows) :
                  /\ Begin(p, c, [LocInit EXCEPT !.wikiId = wikiId],
                           <<Ev("GetView", wikiSlug, NoErr, 0, "", wikiId)>>)
                  /\ Goto(p, "pageBySlug")
    /\ NoRender(p)
    /\ UNCHANGED storeVars

\* lines 159-162: look the page up in the store of the wiki that was found
ReadBySlugPage(p) ==
    /\ pc[p] = "pageBySlug"
    /\ \E r \in ReadPageBySlug(loc[p].wikiId, call[p].id) :
         /\ Logged(p, Ev("ReadPageBySlug", call[p].id, r.err, r.rev, "", loc[p].wikiId))
         /\ loc' = [loc EXCEPT ![p].thePage = r.doc]
         /\ pc'  = [pc EXCEPT ![p] = "done"]
         /\ ret' = [ret EXCEPT ![p] = [NoRet EXCEPT !.rev = r.rev, !.err = r.err,
                                                    !.wikiId = loc[p].wikiId]]
    /\ UNCHANGED <<storeVars, call, task, hand>>

(***************************************************************************)
(* processMarkdown (lines 286-299), the render goroutine of one save.      *)
(* commonmark and bluemonday are libraries: what they compute is a table   *)
(* over the texts of the model, and each library call either returns or    *)
(* panics.                                                                 *)
(***************************************************************************)
\* document.RenderHtml(CMARK_OPT_DEFAULT)
RenderHtml(raw) ==
    CASE raw = "md1" -> "<p>md1</p>"
      [] raw = "md2" -> "<h1>md2</h1><script>x</script>"
      [] OTHER       -> ""

\* getSanitizerPolicy().Sanitize(html): the UGC policy drops script elements
Sanitize(html) ==
    CASE html = "<p>md1</p>"                     -> "<p>md1</p>"
      [] html = "<h1>md2</h1><script>x</script>" -> "<h1>md2</h1>"
      [] OTHER                                   -> ""

\* lines 294-298 up to the send: the goroutine shares nothing with any
\* other, so its library calls are one step.  Each call returns or panics:
\* ParseDocument before a document exists, RenderHtml while it is allocated,
\* Sanitize after it was freed.  A panic unwinds to the deferred function.
MdRender(p) ==
    /\ task[p].at = "parse"
    /\ \/ task' = [task EXCEPT ![p].at = "send",
                               ![p].val = Sanitize(RenderHtml(call[p].raw))]
       \/ task' = [task EXCEPT ![p].at = "panic", ![p].panicked = TRUE]
       \/ task' = [task EXCEPT ![p].at = "panic", ![p].panicked = TRUE,
                               ![p].doc = TRUE]
    /\ UNCHANGED <<storeVars, pc, call, loc, ret, log, hand>>

\* lines 287-292, mutated: the panic is recovered and logged, nothing is sent
MdRecoverNoSend(p) ==
    /\ task[p].at = "panic"
    /\ task' = [task EXCEPT ![p].at = "exit"]
    /\ UNCHANGED <<storeVars, pc, call, loc, ret, log, hand>>

\* lines 287-292, mutated: no recover(), the panic ends the process and
\* with it the save
MdNoRecover(p) ==
    /\ task[p].at = "panic"
    /\ task' = [task EXCEPT ![p].at = "exit"]
    /\ Return(p, 0, "panic")
    /\ UNCHANGED <<storeVars, call, loc, log, hand>>

\* lines 287-292: the deferred function recovers the panic, logs it and
\* goes to send the empty string
MdRecover(p) ==
    /\ task[p].at = "panic"
    /\ task' = [task EXCEPT ![p].at = "send", ![p].val = ""]
    /\ UNCHANGED <<storeVars, pc, call, loc, ret, log, hand>>

\* `out <- v` of the goroutine meets `<-out` of the caller (lines 126, 221):
\* the channel is unbuffered, the value passes when both are there; the
\* goroutine then runs to its end
Handoff(p) ==
    /\ pc[p] = "recv"
    /\ task[p].at = "send"
    /\ loc'  = [loc EXCEPT ![p].formatted = task[p].val]
    /\ task' = [task EXCEPT ![p].at = "exit"]
    /\ hand' = [hand EXCEPT ![p].sent = @ + 1, ![p].received = @ + 1]
    /\ Goto(p, "write")
    /\ UNCHANGED <<storeVars, call, log>>

(***************************************************************************)
(* PageManager.Save (lines 117-130).                                       *)
(***************************************************************************)
\* lines 123-126: start the render goroutine and wait for its value
SaveRender(p, ids, raws) ==
    /\ Ready(p)
    /\ \E pageId \in ids : \E pageRev \in KnownRevs(pages, pageId) :
       \E raw \in raws :
         Below(pages, pageId) /\
         Begin(p, Call("Save", Alice, pageId, pageRev, raw), LocInit, <<>>)
    /\ Spawn(p)
    /\ Goto(p, "recv")
    /\ UNCHANGED storeVars

\* lines 128-129: theWiki.SavePage(page, pageId, pageRev, userName)
SavePage(p) ==
    /\ pc[p] = "write"
    /\ call[p].op = "Save"
    /\ LET id  == call[p].id
           doc == [pages[id] EXCEPT !.owningPage = id, !.raw = call[p].raw,
                                    !.formatted = loc[p].formatted]
           r   == StoreWrite(pages, id, call[p].rev, doc) IN
       /\ pages' = r.db
       /\ Logged(p, Ev("SavePage", id, r.err, r.rev, loc[p].formatted, ""))
       /\ Return(p, r.rev, r.err)
    /\ UNCHANGED <<wikiRec, comments, call, loc, task, hand>>

(***************************************************************************)
(* The Authorization Gate, allowedToUpdateComment (lines 252-274).         *)
(***************************************************************************)
\* lines 265-267, mutated: only the admin role of this wiki counts
IsAdminOfWikiOnly(userRoles, wiki) == HasRole(userRoles, AdminRole(wiki))

\* lines 265-267
IsAdmin(userRoles, wiki) ==
    \/ HasRole(userRoles, AdminRole(wiki))
    \/ HasRole(userRoles, AdminRole(MainDbName))
    \/ HasRole(userRoles, MasterRole)

\* lines 260-272, mutated: the roles are looked at before the read's error
AllowedRolesFirst(r, wiki, user) ==
    \/ IsAdmin(user.roles, wiki)
    \/ r.err = NoErr /\ r.doc.author = user.name

\* lines 260-272, on the outcome r of theWiki.ReadComment(commentId, &comment)
Allowed(r, wiki, user) ==
    IF r.err # NoErr THEN FALSE
    ELSE r.doc.author = user.name \/ IsAdmin(user.roles, wiki)

\* the gate as a call runs it: one read of the comment, then the decision
GateRead(id) == StoreRead(comments, id, EmptyComment)

GateLocals(id, user) ==
    [LocInit EXCEPT !.comment = GateRead(id).doc,
                    !.allowed = Allowed(GateRead(id), Wiki, user)]

GateEvent(id) ==
    Ev("ReadComment", id, GateRead(id).err, GateRead(id).rev, "", GateRead(id).doc.author)

(***************************************************************************)
(* PageManager.SaveComment (lines 206-225).                                *)
(***************************************************************************)
\* line 211: only an update (a non-empty revision token) passes the gate
IsUpdate(commentRev) == commentRev # 0

\* line 212, mutated: the answer of the gate is not looked at
GateDeniesNever(allowed) == FALSE

\* lines 212, 240: the gate said no
GateDenies(allowed) == allowed = FALSE

\* lines 210-221: the gate for an update, then the render goroutine
SaveCommentRender(p, users, raws) ==
    /\ Ready(p)
    /\ \E user \in users : \E id \in CommentIds :
       \E commentRev \in KnownRevs(comments, id) : \E raw \in raws :
         Below(comments, id) /\
         LET c == Call("SaveComment", user, id, commentRev, raw) IN
         IF IsUpdate(commentRev)
         THEN /\ Begin(p, c, GateLocals(id, user), <<GateEvent(id)>>)
              /\ IF GateDenies(Allowed(GateRead(id), Wiki, user))
                 THEN NoRender(p) /\ Return(p, 0, Forbidden)
                 ELSE Spawn(p) /\ Goto(p, "recv")
         ELSE /\ Begin(p, c, LocInit, <<>>)
              /\ Spawn(p)
              /\ Goto(p, "recv")
    /\ UNCHANGED storeVars

\* lines 223-224: theWiki.SaveComment(comment, commentId, commentRev, pageId,
\* userName); the store keeps the Author a comment was created with
SaveCommentWrite(p) ==
    /\ pc[p] = "write"
    /\ call[p].op = "SaveComment"
    /\ LET id  == call[p].id
           old == comments[id]
           doc == [old EXCEPT !.author = IF old.live THEN old.author
                                         ELSE call[p].user.name,
                              !.raw = call[p].raw,
                              !.formatted = loc[p].formatted]
           r   == StoreWrite(comments, id, call[p].rev, doc) IN
       /\ comments' = r.db
       /\ Logged(p, Ev("SaveComment", id, r.err, r.rev, loc[p].formatted,
                       IF old.live THEN old.author ELSE ""))
       /\ Return(p, r.rev, r.err)
    /\ UNCHANGED <<pages, wikiRec, call, loc, task, hand>>

(***************************************************************************)
(* PageManager.DeleteComment (lines 236-250).                              *)
(***************************************************************************)
\* lines 240, 247-249: the gate
DeleteCommentGate(p, users) ==
    /\ Ready(p)
    /\ \E user \in users : \E id \in CommentIds :
         /\ Below(comments, id)
         /\ Begin(p, Call("DeleteComment", user, id, 0, ""),
                  GateLocals(id, user), <<GateEvent(id)>>)
         /\ IF GateDenies(Allowed(GateRead(id), Wiki, user))
            THEN Return(p, 0, Forbidden)
            ELSE Goto(p, "dcRead")
    /\ NoRender(p)
    /\ UNCHANGED storeVars

\* lines 241-245: read the comment again for its revision token
DeleteCommentRead(p) ==
    /\ pc[p] = "dcRead"
    /\ LET r == StoreRead(comments, call[p].id, EmptyComment) IN
       /\ Logged(p, Ev("ReadComment", call[p].id, r.err, r.rev, "", r.doc.author))
       /\ loc' = [loc EXCEPT ![p].comment = r.doc, ![p].commentRev = r.rev]
       /\ IF r.err # NoErr THEN Return(p, 0, r.err) ELSE Goto(p, "dcDelete")
    /\ UNCHANGED <<storeVars, call, task, hand>>

\* line 246, mutated: the delete is forced with whatever token is current
DeleteTokenCurrent(p) == CurRev(comments, call[p].id)

\* lines 242 and 246: commentRev, as the re-read returned it
DeleteToken(p) == loc[p].commentRev

\* line 246: theWiki.DeleteComment(commentId, commentRev)
DeleteCommentDelete(p) ==
    /\ pc[p] = "dcDelete"
    /\ LET id == call[p].id
           r  == StoreDelete(comments, id, DeleteToken(p)) IN
       /\ comments' = r.db
       /\ Logged(p, Ev("DeleteComment", id, r.err, r.rev, "",
                       IF comments[id].live THEN comments[id].author ELSE ""))
       /\ Return(p, r.rev, r.err)
    /\ UNCHANGED <<pages, wikiRec, call, loc, task, hand>>

(***************************************************************************)
(* Specifications.                                                         *)
(***************************************************************************)
InitProcs ==
    /\ pc   = [p \in Procs |-> "idle"]
    /\ call = [p \in Procs |-> NoCall]
    /\ loc  = [p \in Procs |-> LocInit]
    /\ ret  = [p \in Procs |-> NoRet]
    /\ log  = [p \in Procs |-> <<>>]
    /\ task = [p \in Procs |-> NoTask]
    /\ hand = [p \in Procs |-> NoHand]

\* a wiki with two pages that were saved twice, the history record of the
\* first revision of p1, and a home page or none
LivePage(id) == [EmptyPage EXCEPT !.live = TRUE, !.rev = 2, !.owningPage = id,
                                  !.title = id, !.wiki = Wiki]

HistoryPage(id, owner) == [LivePage(id) EXCEPT !.owningPage = owner]

InitPages ==
    pages = [id \in StoredIds |->
               IF id \in LivePageIds THEN LivePage(id) ELSE HistoryPage(id, "p1")]

WikiWithHome(h) ==
    [w \in {Wiki} |-> [EmptyWikiRecord EXCEPT !.live = TRUE, !.rev = 1, !.homePageId = h]]

InitWiki == \E h \in LivePageIds \cup {""} : wikiRec = WikiWithHome(h)

\* one comment id: not yet used, or a comment written by alice
InitComments ==
    \E c \in {EmptyComment,
              [live |-> TRUE, rev |-> 1, author |-> "alice", raw |-> "md1",
               formatted |-> "<p>md1</p>"]} :
      comments = [id \in CommentIds |-> c]

NoComments == [id \in CommentIds |-> EmptyComment]

Init == InitProcs /\ InitPages /\ InitWiki /\ InitComments

RenderStep(p) == MdRender(p) \/ MdRecover(p) \/ Handoff(p)

\* concurrent requests delete pages while the home page is being set
NextPage ==
    \/ WikiSetHomePage
    \/ \E p \in Procs :
         DeleteReadPage(p) \/ DeleteWikiRead(p) \/ DeleteWikiUpdate(p) \/ DeletePage(p)

InitPage == InitProcs /\ InitPages /\ InitWiki /\ comments = NoComments

SpecPage == InitPage /\ [][NextPage]_vars

\* concurrent requests of an author and of another user save and delete
\* comments
NextComment ==
    \E p \in Procs :
      \/ SaveCommentRender(p, {Alice, Bob}, {"md1"}) \/ SaveCommentWrite(p)
      \/ DeleteCommentGate(p, {Alice, Bob})
      \/ DeleteCommentRead(p) \/ DeleteCommentDelete(p)
      \/ RenderStep(p)

InitComment == InitProcs /\ InitPages /\ wikiRec = WikiWithHome("p1") /\ InitComments

SpecComment == InitComment /\ [][NextComment]_vars

\* one request after the other, made by any principal: the comment
\* operations and the gate inside them
InitGate ==
    /\ InitProcs /\ InitPages /\ wikiRec = WikiWithHome("p1")
    /\ \E c \in {EmptyComment} \cup
                {[live |-> TRUE, rev |-> 1, author |-> a, raw |-> "md1",
                  formatted |-> "<p>md1</p>"] : a \in {"alice", "bob", "carol"}} :
         comments = [id \in CommentIds |-> c]

NextGate ==
    \/ SaveCommentRender(1, Principals, RawTexts) \/ SaveCommentWrite(1)
    \/ DeleteCommentGate(1, Principals)
    \/ DeleteCommentRead(1) \/ DeleteCommentDelete(1)
    \/ RenderStep(1)

SpecGate == InitGate /\ [][NextGate]_vars

\* the saves of one request after the other, each with its render
\* goroutine.  The Go scheduler runs a goroutine that can take a step, and
\* a store call returns: every step that stays possible is taken.
NextRender ==
    \/ SaveRender(1, {"p1"}, RawTexts) \/ SavePage(1)
    \/ SaveCommentRender(1, {Alice, Bob, Carol}, RawTexts) \/ SaveCommentWrite(1)
    \/ RenderStep(1)

SpecRender ==
    /\ InitComment /\ [][NextRender]_vars
    /\ WF_vars(MdRender(1)) /\ WF_vars(MdRecover(1)) /\ WF_vars(Handoff(1))
    /\ WF_vars(SavePage(1)) /\ WF_vars(SaveCommentWrite(1))

\* page hierarchies of up to MaxDepth levels below a root.  parent is a
\* forest over the page ids; a page's Lineage is its chain of ancestors,
\* root first.  The spec takes the Lineage without the page's own id, while
\* lines 97-98 look for a page's parent at the second-to-last entry, which
\* is where it is when the page's own id comes last: both layouts are
\* started from.
CrumbIds == {"p1", "p2", "p3", "p4"}

RECURSIVE Chain(_, _, _)
\* the ancestors of id, root first, following parent at most fuel times
Chain(parent, id, fuel) ==
    IF parent[id] = "" \/ fuel = 0 THEN <<>>
    ELSE Append(Chain(parent, parent[id], fuel - 1), parent[id])

RECURSIVE Root(_, _, _)
Root(parent, id, fuel) ==
    IF parent[id] = "" THEN id
    ELSE IF fuel = 0 THEN ""
    ELSE Root(parent, parent[id], fuel - 1)

\* every page reaches a root within MaxDepth steps
IsForest(parent) == \A id \in CrumbIds : Root(parent, id, MaxDepth) # ""

LineageOf(parent, id, withSelf) ==
    IF withSelf THEN Append(Chain(parent, id, MaxDepth), id)
    ELSE Chain(parent, id, MaxDepth)

InitCrumbs ==
    /\ InitProcs /\ wikiRec = WikiWithHome("p1") /\ comments = NoComments
    /\ \E parent \in [CrumbIds -> CrumbIds \cup {""}] : \E withSelf \in BOOLEAN :
         /\ IsForest(parent)
         /\ pages = [id \in CrumbIds |->
                       [LivePage(id) EXCEPT !.lineage = LineageOf(parent, id, withSelf)]]

NextCrumbs == GetBreadcrumbsRead(1) \/ GetBreadcrumbsAncestors(1)

SpecCrumbs == InitCrumbs /\ [][NextCrumbs]_vars

\* two wikis, each with a slug and either still there or deleted, and two
\* live pages with a slug each, in one wiki or the other; the history
\* record h1 carries the slug of p1
WikiIds == {"w1", "w2"}

WikiSlugs == {"acme", "docs"}

PageSlugs == {"intro", "faq"}

InitSlug ==
    /\ InitProcs /\ comments = NoComments
    /\ \E live \in [WikiIds -> BOOLEAN] : \E slug \in [WikiIds -> WikiSlugs] :
         wikiRec = [w \in WikiIds |->
                      [EmptyWikiRecord EXCEPT !.live = live[w], !.rev = 1, !.slug = slug[w]]]
    /\ \E wiki \in [LivePageIds -> WikiIds] : \E slug \in [LivePageIds -> PageSlugs] :
         pages = [id \in StoredIds |->
                    IF id \in LivePageIds
                    THEN [LivePage(id) EXCEPT !.wiki = wiki[id], !.slug = slug[id]]
                    ELSE [HistoryPage(id, "p1") EXCEPT !.wiki = wiki["p1"], !.slug = slug["p1"]]]

NextSlug == ReadBySlugView(1, WikiSlugs, PageSlugs) \/ ReadBySlugPage(1)

SpecSlug == InitSlug /\ [][NextSlug]_vars

\* the history of the pages of a wiki is asked for
NextHistory == GetHistory(1)

SpecHistory == Init /\ [][NextHistory]_vars

\* every operation, by concurrent requests of any principal
Next ==
    \/ WikiSetHomePage
    \/ \E p \in Procs :
         \/ DeleteReadPage(p) \/ DeleteWikiRead(p) \/ DeleteWikiUpdate(p) \/ DeletePage(p)
         \/ SaveRender(p, LivePageIds, RawTexts) \/ SavePage(p)
         \/ SaveCommentRender(p, Principals, RawTexts) \/ SaveCommentWrite(p)
         \/ DeleteCommentGate(p, Principals)
         \/ DeleteCommentRead(p) \/ DeleteCommentDelete(p)
         \/ GetBreadcrumbsRead(p) \/ GetBreadcrumbsAncestors(p)
         \/ ReadBySlugView(p, WikiSlugs, PageSlugs) \/ ReadBySlugPage(p)
         \/ GetHistory(p)
         \/ RenderStep(p)

Spec == Init /\ [][Next]_vars

(***************************************************************************)
(* Properties.                                                             *)
(***************************************************************************)
\* request p took a step
Stepped(p) == <<pc[p], call[p], ret[p], log[p]>>' # <<pc[p], call[p], ret[p], log[p]>>

LogIdx(p) == 1 .. Len(log[p])

\* ---- C1 ----------------------------------------------------------------
\* the call is a Delete whose ReadPage found a record owned by another page
C1_Historical(p) ==
    /\ call[p].op = "Delete"
    /\ log[p] # <<>>
    /\ log[p][1].err = NoErr
    /\ loc[p].thePage.owningPage # call[p].id

C1_Refused ==
    \A p \in Procs : C1_Historical(p) =>
        /\ pc[p] = "done"
        /\ ret[p].err = BadRequest /\ ret[p].rev = 0
        /\ Ops(p) = <<"ReadPage">>

\* C1: Delete of an existing page record whose OwningPage is not the
\* requested pageId returns BadRequest whatever revision token came with
\* it; the call issues the one read and nothing else, and the step that
\* refuses leaves the page store and the WikiRecord as they were.
C1_HistoricalDeleteRefused ==
    [][ /\ C1_Refused'
        /\ \A p \in Procs : (Stepped(p) /\ C1_Historical(p)') =>
               (pages' = pages /\ wikiRec' = wikiRec) ]_vars

\* a historical record was refused although the token was the current one
C1_Witness ==
    \E p \in Procs :
        /\ C1_Historical(p) /\ pc[p] = "done" /\ ret[p].err = BadRequest
        /\ call[p].rev = pages[call[p].id].rev /\ call[p].rev # 0

\* ---- C2 ----------------------------------------------------------------
C2_Order(p) ==
    \A i \in LogIdx(p) : \A k \in LogIdx(p) :
        (/\ log[p][i].op = "DeletePage"
         /\ log[p][k].op = "WikiRead" /\ log[p][k].info = call[p].id) =>
            \E j \in LogIdx(p) :
                /\ k < j /\ j < i
                /\ log[p][j].op = "WikiUpdate" /\ log[p][j].err = NoErr

C2_Abort(p) ==
    \A i \in LogIdx(p) :
        (log[p][i].op = "WikiUpdate" /\ log[p][i].err # NoErr) =>
            /\ i = Len(log[p])
            /\ pc[p] = "done"
            /\ ret[p].err = log[p][i].err /\ ret[p].rev = 0

C2_Inv == \A p \in Procs : call[p].op = "Delete" => C2_Order(p) /\ C2_Abort(p)

\* C2: when the page Delete is about is the home page the WikiRecord read
\* showed, the page delete is issued only after a WikiRecord update of this
\* call succeeded, and that update leaves HomePageId empty; when the update
\* fails, the call ends there with the update's error, issues no page
\* delete, and the failing step leaves the page store as it was.
C2_ClearBeforeDelete ==
    [][ /\ C2_Inv'
        /\ \A p \in Procs :
             /\ (pc[p] = "wmUpdate" /\ pc'[p] = "deletePage") =>
                    wikiRec'[Wiki].homePageId = ""
             /\ (pc[p] = "wmUpdate" /\ pc'[p] = "done") =>
                    (pages' = pages /\ wikiRec' = wikiRec) ]_vars

\* the update of the home page's Delete failed and the page is still there
C2_Witness ==
    \E p \in Procs :
        /\ pc[p] = "done" /\ call[p].op = "Delete"
        /\ Ops(p) = <<"ReadPage", "WikiRead", "WikiUpdate">>
        /\ log[p][3].err = Conflict /\ ret[p].err = Conflict
        /\ Exists(pages, call[p].id)

\* ---- C3 ----------------------------------------------------------------
\* the update of this Delete succeeded and its page delete failed
C3_Case(p) ==
    /\ call[p].op = "Delete"
    /\ Ops(p) = <<"ReadPage", "WikiRead", "WikiUpdate", "DeletePage">>
    /\ log[p][3].err = NoErr
    /\ log[p][4].err # NoErr

C3_Inv ==
    \A p \in Procs : C3_Case(p) =>
        /\ pc[p] = "done"
        /\ ret[p].err = log[p][4].err /\ ret[p].rev = 0
        /\ (wikiRec[Wiki].rev = log[p][3].rev => wikiRec[Wiki].homePageId = "")

\* C3: when the home-page-clearing update succeeded and the page delete
\* fails, Delete returns the delete's error and ends; the failing step
\* writes neither store, so HomePageId stays empty (until another request
\* rewrites the WikiRecord) and, the token being stale, the page is still
\* there.
C3_NoRollback ==
    [][ /\ C3_Inv'
        /\ \A p \in Procs : (pc[p] = "deletePage" /\ Stepped(p) /\ C3_Case(p)') =>
               /\ wikiRec' = wikiRec /\ pages' = pages
               /\ (log'[p][4].err = Conflict => Exists(pages', call[p].id)) ]_vars

\* cleared home page, failed delete, page still there
C3_Witness ==
    \E p \in Procs :
        /\ C3_Case(p) /\ log[p][4].err = Conflict /\ ret[p].err = Conflict
        /\ wikiRec[Wiki].homePageId = ""
        /\ Exists(pages, call[p].id)

\* ---- C4 ----------------------------------------------------------------
\* the call ran the gate: a DeleteComment, or a SaveComment of an update;
\* the first entry of its log is the gate's read of the comment
RanGate(p) ==
    \/ call[p].op = "DeleteComment"
    \/ call[p].op = "SaveComment" /\ call[p].rev # 0

GateFetched(p) == log[p][1].op = "ReadComment" /\ log[p][1].err = NoErr

IsAuthor(p) == GateFetched(p) /\ log[p][1].info = call[p].user.name

\* the comment is as the gate of p's call found it
AsGateSawIt(p) ==
    IF GateFetched(p) THEN comments[call[p].id] = loc[p].comment
    ELSE ~Exists(comments, call[p].id)

HoldsAdminRole(p) ==
    call[p].user.roles \cap {"w1:admin", "main:admin", "master"} # {}

\* C4: allowedToUpdateComment answers true exactly when the comment was
\* fetched and the principal is its Author or holds the admin role of this
\* wiki, the admin role of the main namespace or the master role; a failed
\* fetch gives false whatever the roles.
C4_GateDecision ==
    \A p \in Procs : RanGate(p) =>
        /\ log[p] # <<>> /\ log[p][1].op = "ReadComment"
        /\ loc[p].allowed = (GateFetched(p) /\ (IsAuthor(p) \/ HoldsAdminRole(p)))

\* the gate let a main-namespace admin through who is not the author
C4_Witness ==
    \E p \in Procs :
        /\ RanGate(p) /\ GateFetched(p) /\ ~IsAuthor(p)
        /\ call[p].user = Dave /\ loc[p].allowed

\* ---- C5 ----------------------------------------------------------------
\* C5: a SaveComment with a non-empty commentRev by a principal who is not
\* the comment's Author and holds none of the three roles returns Forbidden
\* having done nothing but the gate's read: no render goroutine was
\* started, nothing was written, the comment is as the gate read it.
C5_ForbiddenUpdate ==
    \A p \in Procs :
        (/\ call[p].op = "SaveComment" /\ call[p].rev # 0
         /\ ~IsAuthor(p) /\ ~HoldsAdminRole(p)) =>
            /\ pc[p] = "done"
            /\ ret[p].err = Forbidden /\ ret[p].rev = 0
            /\ Ops(p) = <<"ReadComment">>
            /\ hand[p].spawned = 0 /\ task[p].at = "none"
            /\ AsGateSawIt(p)

\* bob was refused the update of alice's comment, with its current token
C5_Witness ==
    \E p \in Procs :
        /\ call[p].op = "SaveComment" /\ call[p].user = Bob
        /\ call[p].rev # 0 /\ call[p].rev = comments[call[p].id].rev
        /\ GateFetched(p) /\ log[p][1].info = "alice"
        /\ pc[p] = "done" /\ ret[p].err = Forbidden

\* ---- C6 ----------------------------------------------------------------
\* a successful write or delete of p's call that hit an existing comment
ChangedExisting(p, i) ==
    /\ log[p][i].op \in {"SaveComment", "DeleteComment"}
    /\ log[p][i].err = NoErr
    /\ log[p][i].info # ""

\* C6: every change or removal of an existing comment is made by a call of
\* that comment's Author or of a holder of an admin / master role; a
\* SaveComment with the empty token never changes an existing comment.
C6_OnlyAuthorOrAdminChanges ==
    \A p \in Procs : \A i \in LogIdx(p) :
        ChangedExisting(p, i) =>
            /\ log[p][i].info = call[p].user.name \/ HoldsAdminRole(p)
            /\ ~(call[p].op = "SaveComment" /\ call[p].rev = 0)

\* ---- C7 ----------------------------------------------------------------
C7_Denied(p) == call[p].op = "DeleteComment" /\ ~loc[p].allowed

\* C7 as stated: a denied DeleteComment returns Forbidden and has issued
\* no read, write or delete to the store.
C7_DeniedTouchesNothing ==
    \A p \in Procs : C7_Denied(p) =>
        /\ pc[p] = "done" /\ ret[p].err = Forbidden
        /\ log[p] = <<>>

\* C7, amended: a denied DeleteComment returns Forbidden having issued the
\* gate's own read of the comment and nothing else: no second read, no
\* write, no delete; the comment is as the gate read it.
C7_DeniedOnlyGateRead ==
    \A p \in Procs : C7_Denied(p) =>
        /\ pc[p] = "done"
        /\ ret[p].err = Forbidden /\ ret[p].rev = 0
        /\ Ops(p) = <<"ReadComment">>
        /\ AsGateSawIt(p)

\* the admin of another wiki was refused the delete of alice's comment
C7_Witness ==
    \E p \in Procs :
        /\ C7_Denied(p) /\ call[p].user = Frank
        /\ GateFetched(p) /\ log[p][1].info = "alice"
        /\ pc[p] = "done" /\ ret[p].err = Forbidden
        /\ Exists(comments, call[p].id)

\* ---- C8 ----------------------------------------------------------------
IsSave(p) == call[p].op \in {"Save", "SaveComment"}

WriteOp(p) == IF call[p].op = "Save" THEN "SavePage" ELSE "SaveComment"

\* the last entry of p's log is the write of the save
Wrote(p) == log[p] # <<>> /\ log[p][Len(log[p])].op = WriteOp(p)

LastEv(p) == log[p][Len(log[p])]

\* C8: when the render of a Save or SaveComment panics, the panic stays in
\* the render goroutine: the caller is still waiting for the value while
\* the goroutine recovers, receives the empty string, issues the store
\* write with Formatted empty and returns what the store answered.
C8_RenderFaultContained ==
    \A p \in Procs : (IsSave(p) /\ task[p].panicked) =>
        /\ task[p].at \in {"panic", "send"} => pc[p] = "recv"
        /\ task[p].at = "exit" => pc[p] \in {"write", "done"}
        /\ pc[p] \in {"write", "done"} => loc[p].formatted = ""
        /\ pc[p] = "done" =>
              /\ Wrote(p)
              /\ LastEv(p).fmt = ""
              /\ ret[p].err = LastEv(p).err /\ ret[p].rev = LastEv(p).rev

\* a page was saved although its render panicked: Formatted is stored empty
C8_Witness ==
    \E p \in Procs :
        /\ call[p].op = "Save" /\ task[p].panicked /\ pc[p] = "done"
        /\ ret[p].err = NoErr /\ ret[p].rev = pages[call[p].id].rev
        /\ pages[call[p].id].formatted = "" /\ pages[call[p].id].raw = call[p].raw

\* ---- C9 ----------------------------------------------------------------
C9_OneHandoff(p) ==
    /\ hand[p].spawned = 1
    /\ hand[p].sent \in {0, 1} /\ hand[p].received = hand[p].sent
    \* the goroutine ends only after its one send, and is at a send only
    \* while the caller waits for the first value
    /\ task[p].at = "exit" <=> hand[p].sent = 1
    /\ task[p].at = "send" => pc[p] = "recv"
    \* the caller waits until it has received, and writes only afterwards
    /\ pc[p] = "recv" <=> hand[p].received = 0
    /\ pc[p] = "recv" => task[p].at \in {"parse", "panic", "send"}
    /\ Wrote(p) => hand[p].received = 1
    /\ pc[p] = "done" => Wrote(p)

Rendering(p) == IsSave(p) /\ ~(pc[p] = "done" /\ ret[p].err = Forbidden)

\* C9: in every Save and SaveComment that renders, the goroutine sends one
\* value on the channel, on the normal and on the panic path, the caller
\* receives once, and the store write comes after the receive; a waiting
\* caller gets its value and a sending goroutine gets rid of it.
C9_SingleHandoff ==
    /\ [](\A p \in Procs : Rendering(p) => C9_OneHandoff(p))
    /\ \A p \in Procs : (pc[p] = "recv") ~> (pc[p] = "done")
    /\ \A p \in Procs : (task[p].at \in {"parse", "panic", "send"}) ~> (task[p].at = "exit")

\* a save whose render panicked is done after one send and one receive
C9_Witness ==
    \E p \in Procs :
        /\ IsSave(p) /\ pc[p] = "done" /\ Wrote(p) /\ task[p].panicked
        /\ hand[p] = [spawned |-> 1, sent |-> 1, received |-> 1]

\* ---- C10 ---------------------------------------------------------------
\* GetBreadcrumbs returned the trail of a page with a non-empty Lineage
C10_Returned(p) ==
    /\ call[p].op = "GetBreadcrumbs" /\ pc[p] = "done" /\ ret[p].err = NoErr
    /\ loc[p].thePage.lineage # <<>>

Lineage(p) == loc[p].thePage.lineage

Trail(p) == ret[p].crumbs

InSeq(x, seq) == \E i \in 1 .. Len(seq) : seq[i] = x

EndsWithSelf(p) ==
    /\ Trail(p) # <<>>
    /\ Trail(p)[Len(Trail(p))] =
          [Name |-> loc[p].thePage.title, PageId |-> call[p].id, WikiId |-> Wiki,
           Parent |-> IF Len(Lineage(p)) >= 2 THEN Lineage(p)[Len(Lineage(p)) - 1] ELSE ""]
    /\ \A i \in 1 .. Len(Trail(p)) - 1 : Trail(p)[i].PageId # call[p].id

\* C10 as stated: for a page whose Lineage holds its ancestors and not its
\* own id, the trail has len(Lineage) + 1 entries, ends with the page's
\* own breadcrumb and does not name the page before that.
C10_LengthIsLineagePlusOne ==
    \A p \in Procs : (C10_Returned(p) /\ ~InSeq(call[p].id, Lineage(p))) =>
        /\ Len(Trail(p)) = Len(Lineage(p)) + 1
        /\ EndsWithSelf(p)

\* C10, amended: for a page with a non-empty Lineage the trail has
\* len(Lineage) entries: one for each lineage entry but the last, in
\* lineage order, then the page's own breadcrumb; the page's own id is not
\* among the entries before the last.
C10_LengthIsLineage ==
    \A p \in Procs : C10_Returned(p) =>
        /\ Len(Trail(p)) = Len(Lineage(p))
        /\ EndsWithSelf(p)
        /\ \A i \in 1 .. Len(Trail(p)) - 1 : Trail(p)[i].PageId = Lineage(p)[i]

\* the trail of a page two levels down whose Lineage is its two ancestors:
\* two entries, the root and the page, none for the direct parent
C10_Witness ==
    \E p \in Procs :
        /\ C10_Returned(p) /\ ~InSeq(call[p].id, Lineage(p))
        /\ Len(Lineage(p)) = 2 /\ Len(Trail(p)) = 2
        /\ Trail(p)[1].PageId = Lineage(p)[1]
        /\ Trail(p)[2].PageId = call[p].id

\* ---- C11 ---------------------------------------------------------------
\* the per-wiki page lookups of p's call
PageLookups(p) == {i \in 1 .. Len(log[p]) : log[p][i].op = "ReadPageBySlug"}

\* C11: ReadBySlug queries the global slug index first; a page store is
\* looked into only after that query gave a wiki id, and it is the store
\* of that wiki.  When no wiki has the slug the call fails with NotFound,
\* returns the empty wiki id and revision and makes no page lookup.
C11_WikiResolvedFirst ==
    \A p \in Procs : call[p].op = "ReadBySlug" =>
        /\ log[p] # <<>> /\ log[p][1].op = "GetView"
        /\ \A i \in PageLookups(p) :
             /\ i > 1
             /\ log[p][1].info \in GetWikiBySlug(call[p].wikiSlug)
             /\ log[p][i].info = log[p][1].info
        /\ GetWikiBySlug(call[p].wikiSlug) = {} =>
             /\ pc[p] = "done" /\ ret[p].err = NotFound
             /\ ret[p].wikiId = "" /\ ret[p].rev = 0
             /\ PageLookups(p) = {}

\* no wiki has the slug asked for, although a page with the page slug is
\* there: NotFound, no page lookup
C11_Witness ==
    \E p \in Procs :
        /\ call[p].op = "ReadBySlug" /\ pc[p] = "done"
        /\ GetWikiBySlug(call[p].wikiSlug) = {}
        /\ \E id \in LivePageIds : pages[id].slug = call[p].id
        /\ ret[p].err = NotFound /\ PageLookups(p) = {}

\* ---- C12 ---------------------------------------------------------------
\* C12: whenever a render task has ended, the document it parsed, if it
\* parsed one, has been freed: no task exits with its document allocated.
C12_DocumentFreed ==
    \A p \in Procs : task[p].at = "exit" => ~task[p].doc

\* ---- C13 ---------------------------------------------------------------
\* p's DeleteComment has read the comment a second time, after the gate
ReRead(p) ==
    /\ call[p].op = "DeleteComment" /\ Len(log[p]) >= 2
    /\ log[p][2].op = "ReadComment"

\* a step of p's DeleteComment that issues the store delete
C13_DeleteStep(p) == pc[p] = "dcDelete" /\ pc'[p] = "done"

\* the delete of p acts as the store's delete with the token of the
\* re-read, and a comment that moved on since the re-read is left alone
C13_WithReReadToken(p) ==
    LET id  == call[p].id
        tok == log[p][2].rev IN
    /\ loc[p].allowed /\ ReRead(p) /\ log[p][2].err = NoErr
    /\ comments' = StoreDelete(comments, id, tok).db
    /\ ret'[p].err = StoreDelete(comments, id, tok).err
    /\ comments[id].rev # tok =>
         /\ ret'[p].err # NoErr /\ comments' = comments
         /\ comments[id].live => ret'[p].err = Conflict /\ comments'[id].live

\* a failed re-read ends the call with the error of the read, no delete
C13_FailedReRead ==
    \A p \in Procs : (ReRead(p) /\ log[p][2].err # NoErr) =>
        /\ pc[p] = "done" /\ ret[p].err = log[p][2].err
        /\ "DeleteComment" \notin {log[p][i].op : i \in 1 .. Len(log[p])}

\* C13: DeleteComment issues the store delete only with the token its own
\* re-read returned after the gate approved; when the re-read fails the
\* call returns the read's error and issues no delete; when the comment
\* was changed between the re-read and the delete the store rejects the
\* delete and the comment remains.
C13_DeleteUsesReReadToken ==
    /\ [][\A p \in Procs : C13_DeleteStep(p) => C13_WithReReadToken(p)]_vars
    /\ [](C13_FailedReRead)

\* a delete was turned down because the comment had been saved again after
\* the re-read, and the comment is still there
C13_Witness ==
    \E p \in Procs :
        /\ ReRead(p) /\ pc[p] = "done" /\ Len(log[p]) = 3
        /\ log[p][3].op = "DeleteComment" /\ log[p][3].err = Conflict
        /\ ret[p].err = Conflict
        /\ comments[call[p].id].live

\* the comment was removed between the gate and the re-read: the call ends
\* with the error of the read
C13_WitnessGone ==
    \E p \in Procs :
        /\ ReRead(p) /\ log[p][1].err = NoErr /\ log[p][2].err = NotFound
        /\ pc[p] = "done" /\ ret[p].err = NotFound

\* ---- C14 ---------------------------------------------------------------
\* C14: a GetHistory call with pageNum < 0 or numPerPage <= 0 is rejected
\* by the call itself and does not reach the history query of the store.
C14_PagingValidated ==
    \A p \in Procs :
        (/\ call[p].op = "GetHistory"
         /\ ~ValidPaging(call[p].pageNum, call[p].numPerPage)) =>
            /\ ret[p].err # NoErr
            /\ \A i \in 1 .. Len(log[p]) : log[p][i].op # "GetHistory"

\* ---- C15 ---------------------------------------------------------------
\* the gate of p's call found no record under the comment id
C15_NoRecord(p) ==
    /\ RanGate(p) /\ log[p] # <<>>
    /\ log[p][1].op = "ReadComment" /\ log[p][1].err # NoErr

\* C15: a DeleteComment, or a SaveComment with a non-empty commentRev, on
\* a comment id without a record fails with Forbidden, not NotFound, for
\* every principal, holders of an admin or master role included, and
\* issues no write and no delete (nor a render or a second read).
C15_MissingCommentForbidden ==
    \A p \in Procs : C15_NoRecord(p) =>
        /\ pc[p] = "done" /\ ret[p].err = Forbidden
        /\ Len(log[p]) = 1
        /\ hand[p].spawned = 0
        /\ ~Exists(comments, call[p].id)

\* a master's DeleteComment of a comment that is not there was answered
\* Forbidden
C15_Witness ==
    \E p \in Procs :
        /\ C15_NoRecord(p) /\ pc[p] = "done" /\ ret[p].err = Forbidden
        /\ call[p].user = Erin /\ call[p].op = "DeleteComment"

\* a wiki admin's update of a comment that was deleted before was answered
\* Forbidden
C15_WitnessUpdate ==
    \E p \in Procs :
        /\ C15_NoRecord(p) /\ pc[p] = "done" /\ ret[p].err = Forbidden
        /\ call[p].user = Carol /\ call[p].op = "SaveComment" /\ call[p].rev # 0

====
